---- MODULE Spec2Model ----
(***************************************************************************)
(* The temporal aggregation functions of wradlib/util.py as a state        *)
(* machine.  Every function is a call frame: an entry action binds the     *)
(* arguments and runs the code up to the loop, one action runs one pass of *)
(* the loop body, and a last action returns.  An exception ends the call   *)
(* in pc = "raised" with its name in err and nothing in ret.               *)
(*                                                                         *)
(* A datetime is an integer number of ticks since an arbitrary epoch;      *)
(* TicksPerSecond ticks make one second (Python: 10^6 microseconds).       *)
(* A float is an exact rational <<numerator, denominator>> in lowest       *)
(* terms, and NaN is <<0, 0>>: rounding is not modelled.                   *)
(***************************************************************************)
EXTENDS Integers, Sequences, FiniteSets, TLC

(* ------------------------------ bounds -------------------------------- *)

\* time stamps of the inputs lie in 0 .. MaxTime seconds
MaxTime == 4
\* steps (tdelta, tdelta_src) are at most MaxDelta seconds
MaxDelta == 2
\* longest source series (number of values)
MaxLen == 2
\* resolution of a datetime below one second (Python: 1000000)
TicksPerSecond == 2

(* ------------------------------ floats -------------------------------- *)

NaN == <<0, 0>>

isnan(v) == v = NaN

Abs(n) == IF n < 0 THEN -n ELSE n

Sign(n) == IF n < 0 THEN -1 ELSE IF n > 0 THEN 1 ELSE 0

RECURSIVE GCD(_, _)
GCD(a, b) == IF b = 0 THEN a ELSE GCD(b, a % b)

\* the float n/d; d = 0 gives what numpy's division gives: 0/0 is NaN,
\* <<1, 0>> is inf and <<-1, 0>> is -inf
Float(n, d) ==
    IF d = 0 THEN <<Sign(n), 0>>
    ELSE LET g == GCD(Abs(n), Abs(d))
             s == IF d < 0 THEN -1 ELSE 1
         IN  << (s * n) \div g, (s * d) \div g >>

\* x + y and x * y; NaN propagates, inf - inf and inf * 0 are NaN
FAdd(x, y) ==
    IF isnan(x) \/ isnan(y) THEN NaN
    ELSE IF x[2] = 0 /\ y[2] = 0 THEN (IF x = y THEN x ELSE NaN)
    ELSE IF x[2] = 0 THEN x
    ELSE IF y[2] = 0 THEN y
    ELSE Float(x[1] * y[2] + y[1] * x[2], x[2] * y[2])

FMul(x, y) ==
    IF isnan(x) \/ isnan(y) THEN NaN
    ELSE Float(x[1] * y[1], x[2] * y[2])

RECURSIVE FSum(_)
FSum(s) == IF s = <<>> THEN Float(0, 1) ELSE FAdd(Head(s), FSum(Tail(s)))

\* the elements of s at the indices ix (numpy fancy indexing s[ix])
Take(s, ix) == [k \in 1..Len(ix) |-> s[ix[k]]]

\* np.where(mask)[0]: the indices at which the boolean array is true, ascending
RECURSIVE np_where_from(_, _)
np_where_from(mask, k) ==
    IF k > Len(mask) THEN <<>>
    ELSE (IF mask[k] THEN <<k>> ELSE <<>>) \o np_where_from(mask, k + 1)

np_where(mask) == np_where_from(mask, 1)

Range(s) == {s[k] : k \in 1..Len(s)}

\* all sequences over S of a length in lo .. hi
SeqsOf(S, lo, hi) == UNION {[1..n -> S] : n \in lo..hi}

(* ------------------------- datetime, timedelta ------------------------ *)

\* dt.timedelta(seconds=n) as a number of ticks
Seconds(n) == n * TicksPerSecond

\* a timedelta's normalised fields: days, 0 <= seconds < 86400 and the part
\* below one second (Python's microseconds)
TimedeltaDays(td) == td \div (86400 * TicksPerSecond)
TimedeltaSeconds(td) == (td % (86400 * TicksPerSecond)) \div TicksPerSecond

_tdelta2seconds(td) == TimedeltaDays(td) * 86400 + TimedeltaSeconds(td)

(* ------------------------------ from_to ------------------------------- *)

\* the loop's exit test on the advanced time
from_to_break_ge(t, t1) == t >= t1

from_to_break(t, t1) == t > t1

\* the while loop run to its end, for a step that lets it end
RECURSIVE from_to_loop(_, _, _, _)
from_to_loop(steps, t, t1, d) ==
    LET t2 == t + Seconds(d)
    IN  IF from_to_break(t2, t1) THEN steps
        ELSE from_to_loop(Append(steps, t2), t2, t1, d)

from_to(t0, t1, d) == from_to_loop(<<t0>>, t0, t1, d)

\* the model stops extending tsteps at this length; no call whose loop ends
\* gets that far (checked with C1)
FromToCap == MaxTime * TicksPerSecond + 3

(* -------------------- aggregate_equidistant_tseries ------------------- *)

\* twins[:-1] and twins[1:]
ae_tstarts(twins) == SubSeq(twins, 1, Len(twins) - 1)

ae_tends_unshifted(twins) == SubSeq(twins, 1, Len(twins) - 1)

ae_tends(twins) == SubSeq(twins, 2, Len(twins))

\* np.all(np.sort(tends_src) == tends_src)
ae_sorted(ts) == \A k \in 1 .. Len(ts) - 1 : ts[k] <= ts[k + 1]

ae_multiple_any(d, dsrc) == TRUE

\* tdelta % tdelta_src == 0 (dsrc # 0)
ae_multiple(d, dsrc) == d % dsrc = 0

ae_ixinside_closed(ts, begin, end) ==
    np_where([n \in 1 .. Len(ts) |-> ts[n] >= begin /\ ts[n] <= end])

\* np.where((tends_src > begin) & (tends_src <= end))[0]
ae_ixinside(ts, begin, end) ==
    np_where([n \in 1 .. Len(ts) |-> ts[n] > begin /\ ts[n] <= end])

\* from_to(begin, end, tdelta_src)[1:]
ae_expected(begin, end, dsrc) == Tail(from_to(begin, end, dsrc))

\* np.where(np.in1d(tends_src_expected, tends_src[ixinside]))[0]
ae_validix(expected, ts, ixinside) ==
    np_where([n \in 1 .. Len(expected) |->
                 expected[n] \in Range(Take(ts, ixinside))])

\* srcfull = np.repeat(np.nan, n); srcfull[validix] = vals
ae_srcfull(n, validix, vals) ==
    [k \in 1 .. n |->
        IF \E m \in 1 .. Len(validix) : validix[m] = k
        THEN vals[CHOOSE m \in 1 .. Len(validix) : validix[m] = k]
        ELSE NaN]

\* len(np.where(~np.isnan(srcfull))[0])
ae_nvalid(srcfull) ==
    Len(np_where([n \in 1 .. Len(srcfull) |-> ~isnan(srcfull[n])]))

ae_enough_gt(nvalid, nexp, minp) == nvalid * 100 > minp * nexp

\* float(nvalid) / float(nexpected) >= minpercvalid/100. ; both quotients
\* are correctly rounded, so the floats compare as the rationals do
ae_enough(nvalid, nexp, minp) == nvalid * 100 >= minp * nexp

\* np.nansum: the sum of the values that are not NaN; of none of them, NaN
\* before numpy 1.9 and 0.0 since (allnan is what the installed numpy gives)
nansum(s, allnan) ==
    LET v == Take(s, np_where([n \in 1 .. Len(s) |-> ~isnan(s[n])]))
    IN  IF v = <<>> THEN allnan ELSE FSum(v)

nanmean_of_all(s) == FMul(FSum(s), Float(1, Len(s)))

\* scipy.stats.nanmean: the mean of the values that are not NaN; 0.0/0.0 of none
nanmean(s) ==
    LET v == Take(s, np_where([n \in 1 .. Len(s) |-> ~isnan(s[n])]))
    IN  FMul(FSum(v), Float(1, Len(v)))

\* one pass of the loop over the target windows, lines 195-225:
\* what it does to agg[i] and to the inconsistency count
ae_window(ts, vals, begin, end, dsrc, nexp, meth, minp, allnan) ==
    LET ixinside == ae_ixinside(ts, begin, end)
        expected == ae_expected(begin, end, dsrc)
        validix  == ae_validix(expected, ts, ixinside)
        srcfull  == ae_srcfull(Len(expected), validix, Take(vals, ixinside))
        nvalid   == ae_nvalid(srcfull)
    IN  IF Len(validix) # Len(ixinside)
        THEN [kind |-> "inconsistent", value |-> NaN, err |-> ""]
        ELSE IF nvalid > nexp
        THEN [kind |-> "inconsistent", value |-> NaN, err |-> ""]
        ELSE IF nexp = 0
        THEN [kind |-> "raise", value |-> NaN, err |-> "ZeroDivisionError"]
        ELSE IF ae_enough(nvalid, nexp, minp)
        THEN IF meth = "sum"
             THEN [kind |-> "value", value |-> nansum(srcfull, allnan), err |-> ""]
             ELSE IF meth = "mean"
             THEN [kind |-> "value", value |-> nanmean(srcfull), err |-> ""]
             ELSE [kind |-> "raise", value |-> NaN, err |-> "Exception"]
        ELSE [kind |-> "skip", value |-> NaN, err |-> ""]

(* -------------------------- aggregate_in_time -------------------------- *)

\* getattr(np, funcname) finds these (of the names the calls explored use)
NumpyFuncs == {"sum", "mean"}

\* np.sum and np.mean along the time axis; a NaN among the values gives NaN
np_func(f, s) ==
    IF f = "sum" THEN FSum(s) ELSE FMul(FSum(s), Float(1, Len(s)))

DropNone(s) == s

DropLast(s) == SubSeq(s, 1, Len(s) - 1)

ait_select_all(edges, a, b) ==
    np_where([n \in 1 .. Len(edges) |-> edges[n] <= b /\ edges[n] >= a])

ait_select_tail(edges, a, b) ==
    LET ix == np_where([n \in 1 .. Len(edges) |->
                           edges[n] <= b /\ edges[n] >= a])
    IN  SubSeq(ix, 2, Len(ix))

\* np.where(np.logical_and(dt_src <= dt_trg[i+1], dt_src >= dt_trg[i]))[0][:-1]
ait_select(edges, a, b) ==
    DropLast(np_where([n \in 1 .. Len(edges) |->
                          edges[n] <= b /\ edges[n] >= a]))

\* one pass of the loop over the target windows, lines 292-299; ix is
\* src_slice[taxis]
ait_window(vals, edges, a, b, f) ==
    LET ix == ait_select(edges, a, b)
    IN  IF Len(ix) = 0
        THEN [kind |-> "value", value |-> NaN, err |-> "", ix |-> ix]
        ELSE IF f \notin NumpyFuncs
        THEN [kind |-> "raise", value |-> NaN, err |-> "AttributeError",
              ix |-> ix]
        ELSE IF \E k \in 1 .. Len(ix) : ix[k] > Len(vals)
        THEN [kind |-> "raise", value |-> NaN, err |-> "IndexError", ix |-> ix]
        ELSE [kind |-> "value", value |-> np_func(f, Take(vals, ix)),
              err |-> "", ix |-> ix]

(* ------------------------ mean_over_time_windows ----------------------- *)

\* float(_tdelta2seconds(td)), and the same of every interval
motw_seconds(td) == Float(_tdelta2seconds(td), 1)

\* np.where(np.logical_and(dt_src > dt_trg[i], dt_src < dt_trg[i+1]))[0]
motw_inside(edges, a, b) ==
    np_where([n \in 1 .. Len(edges) |-> edges[n] > a /\ edges[n] < b])

\* lines 392-398: the timedeltas between the edges inside the window, the
\* one from the window's start before them and the one to its end after them
motw_intervals(edges, ix, a, b) ==
    << edges[ix[1]] - a >>
    \o [k \in 1 .. Len(ix) - 1 |-> edges[ix[k + 1]] - edges[ix[k]]]
    \o << b - edges[ix[Len(ix)]] >>

\* lines 395-396 and 399-400 (indices from 1): the step before the first
\* inside edge joins the selection; the test for a step after the last one
\* compares an index of dt_src with its last index and never holds
motw_steps(edges, ix) ==
    LET left == IF ix[1] > 1 THEN <<ix[1] - 1>> \o ix ELSE ix
    IN  IF left[Len(left)] - 1 > Len(edges) - 1
        THEN Append(left, left[Len(left)] + 1)
        ELSE left

\* intervals / width
motw_weights(intervals, width) ==
    [k \in 1 .. Len(intervals) |->
        FMul(motw_seconds(intervals[k]),
             Float(width[2], width[1]))]

\* np.dot(np.transpose(src[src_ix]), weights)
RECURSIVE Dot(_, _)
Dot(x, y) ==
    IF x = <<>> THEN Float(0, 1)
    ELSE FAdd(FMul(Head(x), Head(y)), Dot(Tail(x), Tail(y)))

\* one pass of the loop over the target windows, lines 388-406
motw_window(vals, edges, a, b) ==
    LET width == motw_seconds(b - a)
        inside == motw_inside(edges, a, b)
    IN  IF inside = <<>>
        THEN [kind |-> "raise", err |-> "IndexError", weights |-> <<>>,
              value |-> NaN]
        ELSE LET intervals == motw_intervals(edges, inside, a, b)
                 src_ix == motw_steps(edges, inside)
                 w == motw_weights(intervals, width)
             IN  IF \E k \in 1 .. Len(src_ix) : src_ix[k] > Len(vals)
                 THEN [kind |-> "raise", err |-> "IndexError", weights |-> w,
                       value |-> NaN]
                 ELSE IF Len(src_ix) # Len(w)
                 THEN [kind |-> "raise", err |-> "ValueError", weights |-> w,
                       value |-> NaN]
                 ELSE [kind |-> "value", err |-> "", weights |-> w,
                       value |-> Dot(Take(vals, src_ix), w)]

(* ---------------------- average_over_time_windows ---------------------- *)

\* mktime(tstep.timetuple()): the whole seconds of a stamp (the time tuple
\* has no field below the second; the offset of the local time zone is taken
\* as 0)
mktime(t) == t \div TicksPerSecond

\* np.arange(start, stop, step) for step > 0
RECURSIVE np_arange(_, _, _)
np_arange(start, stop, step) ==
    IF start >= stop THEN <<>>
    ELSE <<start>> \o np_arange(start + step, stop, step)

\* interpolate.interp1d(xs, ys, bounds_error=False)(x) for strictly ascending
\* xs: linear between the two neighbours, NaN outside the range of xs
interp1d(xs, ys, x) ==
    IF x < xs[1] \/ x > xs[Len(xs)] THEN NaN
    ELSE LET j == CHOOSE n \in 1 .. Len(xs) - 1 : xs[n] <= x /\ x <= xs[n + 1]
             rise == FAdd(ys[j + 1], FMul(ys[j], Float(-1, 1)))
         IN  FAdd(ys[j], FMul(rise, Float(x - xs[j], xs[j + 1] - xs[j])))

\* cKDTree(src_secs).query(helper_secs, k=1)[0]: the distance from x to the
\* nearest of xs
kd_dist(xs, x) ==
    LET d == {Abs(x - xs[n]) : n \in 1 .. Len(xs)}
    IN  CHOOSE m \in d : \A o \in d : m <= o

\* lines 479-488: the interpolated values, NaN where the nearest source
\* stamp is more than maxd away (the np.where of line 486 is not assigned)
aotw_helpers(xs, ys, hs, maxd) ==
    [n \in 1 .. Len(hs) |->
        IF kd_dist(xs, hs[n]) > maxd THEN NaN ELSE interp1d(xs, ys, hs[n])]

\* np.where(np.logical_and(dt_src >= dt_trg[i], dt_src <= dt_trg[i+1]))[0]
aotw_helper_ix(stamps, a, b) ==
    np_where([n \in 1 .. Len(stamps) |-> stamps[n] >= a /\ stamps[n] <= b])

\* np.mean: a NaN among the values gives NaN, and so does no value at all
np_mean(s) == FMul(FSum(s), Float(1, Len(s)))

\* one pass of the loop over the target windows, lines 496-500
aotw_window(hv, stamps, a, b) ==
    LET ix == aotw_helper_ix(stamps, a, b)
    IN  IF \E k \in 1 .. Len(ix) : ix[k] > Len(hv)
        THEN [kind |-> "raise", err |-> "IndexError", ix |-> ix, value |-> NaN]
        ELSE [kind |-> "value", err |-> "", ix |-> ix,
              value |-> np_mean(Take(hv, ix))]

(* ------------------------------- state -------------------------------- *)

VARIABLES
    fn,        \* the function called, "" before the call
    pc,        \* "idle", "loop", "returned", "raised"
    err,       \* the exception raised, "" if none
    ret,       \* the value returned, <<>> before the return
    stdout,    \* the lines printed
    tstart, tend, tdelta,      \* from_to, aggregate_equidistant_tseries
    tsteps, tmptime,           \* from_to
    \* aggregate_equidistant_tseries: arguments
    tends_src, tdelta_src, src, method, minpercvalid,
    \* aggregate_equidistant_tseries: locals
    tstarts, tends, nexpected, agg, inconsistencies,
    i,         \* the window the loop is at, from 1; 0 before the loop
    nansum_allnan,  \* what the installed numpy's nansum gives for no value
    \* aggregate_in_time, mean_over_time_windows (src is shared)
    dt_src, dt_trg, func, trg,
    weights,   \* mean_over_time_windows: the weights of the last window
    src_slice, \* aggregate_in_time: src_slice[taxis] of every pass so far
    \* average_over_time_windows
    maxdist, helper_interval, helper_secs, helpers,
    helper_ix  \* helper_ix of the last window

ftLocals == <<tsteps, tmptime>>

aeArgs == <<tends_src, tdelta_src, src, method, minpercvalid, nansum_allnan>>

aeLocals == <<tstarts, tends, nexpected, agg, inconsistencies>>

edgeVars == <<dt_src, dt_trg, func, trg, weights>>

aotwVars == <<maxdist, helper_interval, helper_secs, helpers, helper_ix>>

vars == <<fn, pc, err, ret, stdout, tstart, tend, tdelta, ftLocals,
          aeArgs, aeLocals, i, edgeVars, src_slice, aotwVars>>

Ticks == 0 .. Seconds(MaxTime)

\* whole seconds
Stamps == {Seconds(n) : n \in 0 .. MaxTime}

Values == {NaN, Float(1, 1), Float(2, 1)}

Methods == {"sum", "mean", "median"}

Percents == {0, 50, 100}

Init ==
    /\ fn = ""
    /\ pc = "idle"
    /\ err = ""
    /\ ret = <<>>
    /\ stdout = <<>>
    /\ tstart = 0 /\ tend = 0 /\ tdelta = 0
    /\ tsteps = <<>> /\ tmptime = 0
    /\ tends_src = <<>> /\ tdelta_src = 0 /\ src = <<>>
    /\ method = "" /\ minpercvalid = 0 /\ nansum_allnan = NaN
    /\ tstarts = <<>> /\ tends = <<>> /\ nexpected = 0
    /\ agg = <<>> /\ inconsistencies = 0
    /\ i = 0
    /\ dt_src = <<>> /\ dt_trg = <<>> /\ func = "" /\ trg = <<>>
    /\ weights = <<>>
    /\ src_slice = <<>>
    /\ maxdist = 0 /\ helper_interval = 0
    /\ helper_secs = <<>> /\ helpers = <<>> /\ helper_ix = <<>>

(* from_to, lines 549-555: the arguments are datetimes already *)
FromToCall ==
    /\ pc = "idle"
    /\ \E t0 \in Ticks, t1 \in Ticks, d \in -1 .. MaxDelta :
          /\ tstart' = t0 /\ tend' = t1 /\ tdelta' = d
          /\ tsteps' = <<t0>>
          /\ tmptime' = t0
    /\ fn' = "from_to"
    /\ pc' = "loop"
    /\ UNCHANGED <<err, ret, stdout, aeArgs, aeLocals, i, edgeVars>>
    /\ UNCHANGED <<src_slice, aotwVars>>

(* from_to, lines 556-562: one pass of the while loop *)
FromToStep ==
    /\ fn = "from_to" /\ pc = "loop"
    /\ Len(tsteps) < FromToCap
    /\ tmptime' = tmptime + Seconds(tdelta)
    /\ IF from_to_break(tmptime', tend)
       THEN /\ pc' = "returned"
            /\ ret' = tsteps
            /\ UNCHANGED tsteps
       ELSE /\ tsteps' = Append(tsteps, tmptime')
            /\ UNCHANGED <<pc, ret>>
    /\ UNCHANGED <<fn, err, stdout, tstart, tend, tdelta, aeArgs, aeLocals, i,
                   edgeVars>>
    /\ UNCHANGED <<src_slice, aotwVars>>

\* the docstring's example, lines 159-167 (2000-01-01 00:00:00 is tick 0)
DocExample ==
    [tstart |-> 0, tend |-> Seconds(86400), tdelta |-> 3600 * 6,
     tends_src |-> << Seconds(2 * 3600), Seconds(3 * 3600), Seconds(4 * 3600),
                      Seconds(5 * 3600), Seconds(12 * 3600) >>,
     tdelta_src |-> 3600,
     src |-> << Float(1, 1), Float(1, 1), Float(1, 1), Float(1, 1), Float(1, 1) >>,
     method |-> "sum", minpercvalid |-> 50]

\* the calls of aggregate_equidistant_tseries explored: whole-second stamps,
\* a positive target step (from_to does not end on another), a source step
\* >= 0, and src as long as tends_src or one value short
AeInputs(maxlen) ==
    {DocExample} \cup
    { [tstart |-> t0, tend |-> t1, tdelta |-> d, tends_src |-> ts,
       tdelta_src |-> dsrc, src |-> v, method |-> m, minpercvalid |-> p] :
         t0 \in {Seconds(0), Seconds(1)}, t1 \in Stamps, d \in 1 .. MaxDelta,
         ts \in SeqsOf(Stamps, 1, maxlen), dsrc \in 0 .. MaxDelta,
         v \in SeqsOf(Values, 0, maxlen), m \in Methods, p \in Percents }

(* aggregate_equidistant_tseries, lines 171-192 *)
AeCall ==
    /\ pc = "idle"
    /\ \E a \in AeInputs(MaxLen), allnan \in {NaN, Float(0, 1)} :
          /\ Len(a.src) \in {Len(a.tends_src), Len(a.tends_src) - 1}
          /\ tstart' = a.tstart /\ tend' = a.tend /\ tdelta' = a.tdelta
          /\ tends_src' = a.tends_src /\ tdelta_src' = a.tdelta_src
          /\ src' = a.src /\ method' = a.method
          /\ minpercvalid' = a.minpercvalid
          /\ nansum_allnan' = allnan
    /\ fn' = "aggregate_equidistant_tseries"
    /\ LET twins == from_to(tstart', tend', tdelta')
       IN  /\ tstarts' = ae_tstarts(twins)
           /\ tends' = ae_tends(twins)
    /\ IF Len(tends_src') # Len(src')
       THEN /\ pc' = "raised" /\ err' = "AssertionError: length"
            /\ UNCHANGED <<nexpected, agg, inconsistencies, i>>
       ELSE IF ~ae_sorted(tends_src')
       THEN /\ pc' = "raised" /\ err' = "AssertionError: order"
            /\ UNCHANGED <<nexpected, agg, inconsistencies, i>>
       ELSE IF tdelta_src' = 0
       THEN /\ pc' = "raised" /\ err' = "ZeroDivisionError"
            /\ UNCHANGED <<nexpected, agg, inconsistencies, i>>
       ELSE IF ~ae_multiple(tdelta', tdelta_src')
       THEN /\ pc' = "raised" /\ err' = "AssertionError: multiple"
            /\ UNCHANGED <<nexpected, agg, inconsistencies, i>>
       ELSE /\ nexpected' = tdelta' \div tdelta_src'
            /\ agg' = [k \in 1 .. Len(tstarts') |-> NaN]
            /\ inconsistencies' = 0
            /\ i' = 1
            /\ pc' = "loop"
            /\ UNCHANGED err
    /\ UNCHANGED <<ret, stdout, ftLocals, edgeVars>>
    /\ UNCHANGED <<src_slice, aotwVars>>

(* aggregate_equidistant_tseries, lines 194-225: one target window *)
AeWindow ==
    /\ fn = "aggregate_equidistant_tseries" /\ pc = "loop"
    /\ i <= Len(tstarts)
    /\ LET w == ae_window(tends_src, src, tstarts[i], tends[i], tdelta_src,
                          nexpected, method, minpercvalid, nansum_allnan)
       IN  \/ /\ w.kind = "inconsistent"
              /\ inconsistencies' = inconsistencies + 1
              /\ i' = i + 1
              /\ UNCHANGED <<agg, pc, err, stdout>>
           \/ /\ w.kind = "value"
              /\ agg' = [agg EXCEPT ![i] = w.value]
              /\ i' = i + 1
              /\ UNCHANGED <<inconsistencies, pc, err, stdout>>
           \/ /\ w.kind = "skip"
              /\ i' = i + 1
              /\ UNCHANGED <<agg, inconsistencies, pc, err, stdout>>
           \/ /\ w.kind = "raise"
              /\ pc' = "raised" /\ err' = w.err
              /\ stdout' = IF w.err = "Exception"
                           THEN Append(stdout, <<"Aggregation method not known, yet.", 0>>)
                           ELSE stdout
              /\ UNCHANGED <<agg, inconsistencies, i>>
    /\ UNCHANGED <<fn, ret, tstart, tend, tdelta, ftLocals, aeArgs,
                   tstarts, tends, nexpected, edgeVars>>
    /\ UNCHANGED <<src_slice, aotwVars>>

(* aggregate_equidistant_tseries, lines 226-229 *)
AeReturn ==
    /\ fn = "aggregate_equidistant_tseries" /\ pc = "loop"
    /\ i > Len(tstarts)
    /\ stdout' = IF inconsistencies > 0
                 THEN Append(stdout, <<"WARNING: Inconsistent source times in %d target time intervals.", inconsistencies>>)
                 ELSE stdout
    /\ ret' = <<tstarts, tends, agg>>
    /\ pc' = "returned"
    /\ UNCHANGED <<fn, err, tstart, tend, tdelta, ftLocals, aeArgs, aeLocals, i,
                   edgeVars>>
    /\ UNCHANGED <<src_slice, aotwVars>>

\* the edges of aggregate_in_time's calls: whole seconds below MaxTime
AitStamps == {Seconds(n) : n \in 0 .. MaxTime - 1}

AitFuncs == {"sum", "mean", "total"}

(* aggregate_in_time, lines 287-290: src is 1-d, taxis = 0, and src has one
   value less than dt_src has edges, as the docstring asks *)
AitCall ==
    /\ pc = "idle"
    /\ \E e \in SeqsOf(AitStamps, 2, MaxLen + 1),
          t \in SeqsOf(AitStamps, 1, MaxLen + 1), f \in AitFuncs :
          /\ dt_src' = e /\ dt_trg' = t /\ func' = f
          /\ \E v \in [1 .. Len(e) - 1 -> Values] : src' = v
    /\ fn' = "aggregate_in_time"
    /\ trg' = [k \in 1 .. Len(dt_trg') - 1 |-> NaN]
    /\ i' = 1
    /\ pc' = "loop"
    /\ UNCHANGED <<err, ret, stdout, tstart, tend, tdelta, ftLocals,
                   tends_src, tdelta_src, method, minpercvalid, nansum_allnan,
                   aeLocals, weights>>
    /\ src_slice' = <<>>
    /\ UNCHANGED aotwVars

(* aggregate_in_time, lines 291-299: one target window *)
AitWindow ==
    /\ fn = "aggregate_in_time" /\ pc = "loop"
    /\ i <= Len(dt_trg) - 1
    /\ LET w == ait_window(src, dt_src, dt_trg[i], dt_trg[i + 1], func)
       IN  /\ src_slice' = Append(src_slice, w.ix)
           /\ \/ /\ w.kind = "value"
                 /\ trg' = [trg EXCEPT ![i] = w.value]
                 /\ i' = i + 1
                 /\ UNCHANGED <<pc, err, stdout>>
              \/ /\ w.kind = "raise"
                 /\ pc' = "raised" /\ err' = w.err
                 /\ stdout' = IF w.err = "AttributeError"
                              THEN Append(stdout, <<"is not a valid function in numpy...", 0>>)
                              ELSE stdout
                 /\ UNCHANGED <<trg, i>>
    /\ UNCHANGED <<fn, ret, tstart, tend, tdelta, ftLocals, aeArgs, aeLocals,
                   dt_src, dt_trg, func, weights>>
    /\ UNCHANGED aotwVars

(* aggregate_in_time, line 300 *)
AitReturn ==
    /\ fn = "aggregate_in_time" /\ pc = "loop"
    /\ i > Len(dt_trg) - 1
    /\ ret' = trg
    /\ pc' = "returned"
    /\ UNCHANGED <<fn, err, stdout, tstart, tend, tdelta, ftLocals, aeArgs,
                   aeLocals, i, edgeVars>>
    /\ UNCHANGED <<src_slice, aotwVars>>

\* the edges of mean_over_time_windows's calls: every tick of the first
\* MotwSeconds seconds
MotwSeconds == 2

MotwStamps == 0 .. Seconds(MotwSeconds)

MotwValues == {Float(1, 1), Float(2, 1)}

(* mean_over_time_windows, lines 382-386: src is 1-d and has one value less
   than dt_src has edges, as the docstring asks *)
MotwCall ==
    /\ pc = "idle"
    /\ \E e \in SeqsOf(MotwStamps, 2, MaxLen + 1),
          t \in SeqsOf(MotwStamps, 1, MaxLen + 1) :
          /\ dt_src' = e /\ dt_trg' = t
          /\ \E v \in [1 .. Len(e) - 1 -> MotwValues] : src' = v
    /\ fn' = "mean_over_time_windows"
    /\ trg' = [k \in 1 .. Len(dt_trg') - 1 |-> NaN]
    /\ i' = 1
    /\ pc' = "loop"
    /\ UNCHANGED <<err, ret, stdout, tstart, tend, tdelta, ftLocals,
                   tends_src, tdelta_src, method, minpercvalid, nansum_allnan,
                   aeLocals, func, weights>>
    /\ UNCHANGED <<src_slice, aotwVars>>

(* mean_over_time_windows, lines 387-406: one target window *)
MotwWindow ==
    /\ fn = "mean_over_time_windows" /\ pc = "loop"
    /\ i <= Len(dt_trg) - 1
    /\ LET w == motw_window(src, dt_src, dt_trg[i], dt_trg[i + 1])
       IN  /\ weights' = w.weights
           /\ \/ /\ w.kind = "value"
                 /\ trg' = [trg EXCEPT ![i] = w.value]
                 /\ i' = i + 1
                 /\ UNCHANGED <<pc, err>>
              \/ /\ w.kind = "raise"
                 /\ pc' = "raised" /\ err' = w.err
                 /\ UNCHANGED <<trg, i>>
    /\ UNCHANGED <<fn, ret, stdout, tstart, tend, tdelta, ftLocals, aeArgs,
                   aeLocals, dt_src, dt_trg, func>>
    /\ UNCHANGED <<src_slice, aotwVars>>

(* mean_over_time_windows, line 407 *)
MotwReturn ==
    /\ fn = "mean_over_time_windows" /\ pc = "loop"
    /\ i > Len(dt_trg) - 1
    /\ ret' = trg
    /\ pc' = "returned"
    /\ UNCHANGED <<fn, err, stdout, tstart, tend, tdelta, ftLocals, aeArgs,
                   aeLocals, i, edgeVars>>
    /\ UNCHANGED <<src_slice, aotwVars>>

\* the calls of average_over_time_windows explored: source stamps strictly
\* ascending on whole seconds (interp1d asks for at least two), target edges
\* on whole seconds, and src as long as dt_src or one value short
AotwValues == {Float(1, 1), Float(2, 1)}

StrictlyAscending(s) == \A k \in 1 .. Len(s) - 1 : s[k] < s[k + 1]

AotwSources == {e \in SeqsOf(Stamps, 2, MaxLen + 1) : StrictlyAscending(e)}

(* average_over_time_windows, lines 472-493: interp1d raises ValueError on
   x and y of different lengths *)
AotwCall ==
    /\ pc = "idle"
    /\ \E e \in AotwSources, t \in SeqsOf(Stamps, 1, MaxLen + 1),
          m \in 0 .. 1, h \in 1 .. MaxDelta :
          /\ dt_src' = e /\ dt_trg' = t
          /\ maxdist' = m /\ helper_interval' = h
          /\ \E n \in {Len(e) - 1, Len(e)} :
                \E v \in [1 .. n -> AotwValues] : src' = v
    /\ fn' = "average_over_time_windows"
    /\ helper_secs' = np_arange(mktime(dt_trg'[1]), mktime(dt_trg'[Len(dt_trg')]),
                                helper_interval')
    /\ helper_ix' = <<>>
    /\ IF Len(src') # Len(dt_src')
       THEN /\ pc' = "raised" /\ err' = "ValueError"
            /\ helpers' = <<>>
            /\ UNCHANGED <<trg, i>>
       ELSE /\ helpers' = aotw_helpers([n \in 1 .. Len(dt_src') |-> mktime(dt_src'[n])],
                                       src', helper_secs', maxdist')
            /\ trg' = [k \in 1 .. Len(dt_trg') - 1 |-> NaN]
            /\ i' = 1
            /\ pc' = "loop"
            /\ UNCHANGED err
    /\ UNCHANGED <<ret, stdout, tstart, tend, tdelta, ftLocals,
                   tends_src, tdelta_src, method, minpercvalid, nansum_allnan,
                   aeLocals, func, weights, src_slice>>

(* average_over_time_windows, lines 495-500: one target window *)
AotwWindow ==
    /\ fn = "average_over_time_windows" /\ pc = "loop"
    /\ i <= Len(dt_trg) - 1
    /\ LET w == aotw_window(helpers, dt_src, dt_trg[i], dt_trg[i + 1])
       IN  /\ helper_ix' = w.ix
           /\ \/ /\ w.kind = "value"
                 /\ trg' = [trg EXCEPT ![i] = w.value]
                 /\ i' = i + 1
                 /\ UNCHANGED <<pc, err>>
              \/ /\ w.kind = "raise"
                 /\ pc' = "raised" /\ err' = w.err
                 /\ UNCHANGED <<trg, i>>
    /\ UNCHANGED <<fn, ret, stdout, tstart, tend, tdelta, ftLocals, aeArgs,
                   aeLocals, dt_src, dt_trg, func, weights, src_slice,
                   maxdist, helper_interval, helper_secs, helpers>>

(* average_over_time_windows, line 502 *)
AotwReturn ==
    /\ fn = "average_over_time_windows" /\ pc = "loop"
    /\ i > Len(dt_trg) - 1
    /\ ret' = trg
    /\ pc' = "returned"
    /\ UNCHANGED <<fn, err, stdout, tstart, tend, tdelta, ftLocals, aeArgs,
                   aeLocals, i, edgeVars, src_slice, aotwVars>>

NextFromTo == FromToCall \/ FromToStep

SpecFromTo == Init /\ [][NextFromTo]_vars

NextEquidistant == AeCall \/ AeWindow \/ AeReturn

SpecEquidistant == Init /\ [][NextEquidistant]_vars

NextInTime == AitCall \/ AitWindow \/ AitReturn

SpecInTime == Init /\ [][NextInTime]_vars

NextMeanOver == MotwCall \/ MotwWindow \/ MotwReturn

SpecMeanOver == Init /\ [][NextMeanOver]_vars

NextAverageOver == AotwCall \/ AotwWindow \/ AotwReturn

SpecAverageOver == Init /\ [][NextAverageOver]_vars

\* the calls with an unknown reduction name, of both functions that take one
NextReduction ==
    \/ AeCall /\ method' \notin {"sum", "mean"}
    \/ AeWindow
    \/ AeReturn
    \/ AitCall /\ func' \notin NumpyFuncs
    \/ AitWindow
    \/ AitReturn

SpecReduction == Init /\ [][NextReduction]_vars

Next ==
    \/ FromToCall \/ FromToStep
    \/ AeCall \/ AeWindow \/ AeReturn
    \/ AitCall \/ AitWindow \/ AitReturn
    \/ MotwCall \/ MotwWindow \/ MotwReturn
    \/ AotwCall \/ AotwWindow \/ AotwReturn

Spec == Init /\ [][Next]_vars

(* ------------------------------ claims -------------------------------- *)

FromToReturned == fn = "from_to" /\ pc = "returned"

\* C1: for step > 0 and start <= end, from_to returns a strictly ascending
\* list that starts at start, whose consecutive elements differ by exactly
\* step, and whose last element is the largest start + k*step <= end (a grid
\* point equal to end is in the list, the first point past end is not); the
\* loop ends by itself, and the result is the one the loop run to its end gives.
C1_FromToGrid ==
    (fn = "from_to" /\ tdelta > 0 /\ tstart <= tend) =>
        /\ pc \in {"loop", "returned"}
        /\ Len(tsteps) < FromToCap
        /\ pc = "returned" =>
              /\ Len(ret) >= 1
              /\ ret[1] = tstart
              /\ \A k \in 1 .. Len(ret) - 1 :
                    ret[k + 1] - ret[k] = tdelta * TicksPerSecond
                    /\ ret[k] < ret[k + 1]
              /\ ret[Len(ret)] <= tend
              /\ ret[Len(ret)] + tdelta * TicksPerSecond > tend
              /\ (\E k \in 0 .. MaxTime * TicksPerSecond :
                     tstart + k * tdelta * TicksPerSecond = tend)
                 => ret[Len(ret)] = tend
              /\ ret = from_to(tstart, tend, tdelta)

\* a returned grid of three points that ends exactly on end
C1_Witness ==
    /\ FromToReturned /\ tdelta > 0 /\ tstart < tend
    /\ Len(ret) >= 3 /\ ret[Len(ret)] = tend

\* C2: from_to with a zero or negative step (start <= end) is rejected with
\* an error and never enters its loop.
C2_NonPositiveStepRejected ==
    (fn = "from_to" /\ tdelta <= 0 /\ tstart <= tend) => pc = "raised"

(* ------------- claims: aggregate_equidistant_tseries ------------------ *)

AeRunning == fn = "aggregate_equidistant_tseries"

AeReturned == AeRunning /\ pc = "returned"

\* the source items whose end stamp lies in target window k, (begin, end]
InWindow(k) ==
    {j \in 1 .. Len(tends_src) :
        tends_src[j] > tstarts[k] /\ tends_src[j] <= tends[k]}

\* the expected grid of window k: begin + m * tdelta_src, m = 1 .. tdelta/tdelta_src
OnGrid(t, k) ==
    \E m \in 1 .. (tdelta \div tdelta_src) :
        t = tstarts[k] + m * tdelta_src * TicksPerSecond

\* the items of window k that hold a value
ValidIn(k) == {j \in InWindow(k) : ~isnan(src[j])}

AllOnGrid(k) == \A j \in InWindow(k) : OnGrid(tends_src[j], k)

NoDuplicate(k) ==
    \A j1 \in InWindow(k), j2 \in InWindow(k) :
        j1 # j2 => tends_src[j1] # tends_src[j2]

\* a window is affected by an inconsistency: a stamp off the grid, a stamp
\* twice, or more values than expected
Affected(k) ==
    \/ ~AllOnGrid(k)
    \/ ~NoDuplicate(k)
    \/ Cardinality(ValidIn(k)) > tdelta \div tdelta_src

RECURSIVE SumOver(_)
SumOver(S) ==
    IF S = {} THEN Float(0, 1)
    ELSE LET j == CHOOSE x \in S : TRUE
         IN  FAdd(src[j], SumOver(S \ {j}))

\* the coverage of window k reaches the threshold
Covered(k) ==
    Cardinality(ValidIn(k)) * 100 * tdelta_src >= minpercvalid * tdelta

\* the sum or the mean of the values of window k
Reduced(k) ==
    IF method = "sum" THEN SumOver(ValidIn(k))
    ELSE FMul(SumOver(ValidIn(k)), Float(1, Cardinality(ValidIn(k))))

IsDocExample ==
    /\ tstart = DocExample.tstart /\ tend = DocExample.tend
    /\ tdelta = DocExample.tdelta /\ tends_src = DocExample.tends_src
    /\ tdelta_src = DocExample.tdelta_src /\ src = DocExample.src
    /\ method = DocExample.method /\ minpercvalid = DocExample.minpercvalid

\* C3 as stated: in every window whose end stamps all lie on the expected
\* grid (each once), the result is real exactly if the share of expected slots
\* that hold a value reaches minpercvalid/100, and is then the sum or the mean
\* of those values; the docstring's example gives [4, NaN, NaN, NaN].
C3_Original ==
    (AeReturned /\ method \in {"sum", "mean"}) =>
        /\ \A k \in 1 .. Len(agg) :
              (AllOnGrid(k) /\ NoDuplicate(k)) =>
                 /\ ~isnan(agg[k]) <=> Covered(k)
                 /\ Covered(k) => agg[k] = Reduced(k)
        /\ IsDocExample => agg = <<Float(4, 1), NaN, NaN, NaN>>

\* C3, amended: the same for every such window that holds at least one value
\* or is checked against a threshold above 0; a window without any value is
\* NaN under 'mean' whatever the threshold.
C3_CoverageThreshold ==
    (AeReturned /\ method \in {"sum", "mean"}) =>
        /\ \A k \in 1 .. Len(agg) :
              (AllOnGrid(k) /\ NoDuplicate(k)) =>
                 /\ (ValidIn(k) # {} \/ minpercvalid > 0) =>
                       /\ ~isnan(agg[k]) <=> Covered(k)
                       /\ Covered(k) => agg[k] = Reduced(k)
                 /\ (ValidIn(k) = {} /\ method = "mean") => isnan(agg[k])
                 /\ ~Covered(k) => isnan(agg[k])
        /\ IsDocExample => agg = <<Float(4, 1), NaN, NaN, NaN>>

\* half of a window's two slots hold a value, which is enough
C3_Witness ==
    /\ AeReturned /\ method = "mean" /\ minpercvalid = 50
    /\ \E k \in 1 .. Len(agg) :
          /\ AllOnGrid(k) /\ NoDuplicate(k)
          /\ Cardinality(InWindow(k)) = 2 /\ Cardinality(ValidIn(k)) = 1
          /\ agg[k] = Float(2, 1)

\* the source without the items of window w
Without(w) ==
    np_where([n \in 1 .. Len(tends_src) |->
                 ~(tends_src[n] > tstarts[w] /\ tends_src[n] <= tends[w])])

\* what the loop gives window k for the source reduced to the items ix
AggOf(k, ix) ==
    ae_window(Take(tends_src, ix), Take(src, ix), tstarts[k], tends[k],
              tdelta_src, nexpected, method, minpercvalid, nansum_allnan).value

Warnings == np_where([n \in 1 .. Len(stdout) |-> stdout[n][2] > 0])

\* C4: every window with a stamp off the expected grid or a stamp twice (or
\* more values than expected) is NaN and raises the count by exactly one; the
\* call does not fail on it, the other windows get what they get without the
\* window's items, the count ends as the number of such windows and is
\* reported once, on return.
C4_InconsistentWindows ==
    (AeRunning /\ i >= 1) =>
        /\ inconsistencies = Cardinality({k \in 1 .. i - 1 : Affected(k)})
        /\ \A k \in 1 .. i - 1 : Affected(k) => isnan(agg[k])
        /\ (pc = "raised") => (method \notin {"sum", "mean"} /\ ~Affected(i))
        /\ (pc = "returned") =>
              /\ i = Len(tstarts) + 1
              /\ ret[3] = agg
              /\ \A w \in 1 .. Len(agg), k \in 1 .. Len(agg) :
                    (Affected(w) /\ k # w /\ method \in {"sum", "mean"})
                    => agg[k] = AggOf(k, Without(w))
              /\ IF inconsistencies > 0
                 THEN Len(Warnings) = 1
                      /\ stdout[Warnings[1]][2] = inconsistencies
                 ELSE Warnings = <<>>
        /\ (pc = "loop") => Warnings = <<>>

\* one affected window beside a window with a result
C4_Witness ==
    /\ AeReturned /\ Len(agg) = 2 /\ inconsistencies = 1
    /\ Affected(1) /\ ~AllOnGrid(1)
    /\ ~Affected(2) /\ ~isnan(agg[2])

\* C5: with tdelta = tdelta_src, the source end stamps equal to the window
\* ends and minpercvalid = 100, 'sum' and 'mean' return the source values
\* unchanged, a NaN as NaN.
C5_IdentityOnSameGrid ==
    (/\ AeRunning /\ pc \in {"loop", "returned", "raised"} /\ i >= 1
     /\ method \in {"sum", "mean"}
     /\ tdelta = tdelta_src /\ tends_src = tends /\ minpercvalid = 100) =>
        /\ pc # "raised"
        /\ \A k \in 1 .. i - 1 : agg[k] = src[k]
        /\ (pc = "returned") => (ret[3] = src /\ ret[2] = tends_src)

C5_Witness ==
    /\ AeReturned /\ method = "mean"
    /\ tdelta = tdelta_src /\ tends_src = tends /\ minpercvalid = 100
    /\ Len(src) = 2 /\ isnan(src[1]) /\ ~isnan(src[2])
    /\ ret[3] = src

NotMultiple == tdelta_src = 0 \/ tdelta % tdelta_src # 0

\* C6: a target step that is no exact multiple of the source step is an
\* error, raised before any window is processed; nothing is returned.
C6_NotMultipleRejected ==
    (AeRunning /\ NotMultiple) =>
        /\ pc = "raised"
        /\ i = 0 /\ agg = <<>> /\ ret = <<>>

\* the multiple check itself fails: the stamps are in order and src fits
C6_Witness ==
    /\ AeRunning /\ pc = "raised" /\ err = "AssertionError: multiple"
    /\ tdelta = 1 /\ tdelta_src = 2
    /\ ae_sorted(tends_src) /\ Len(src) = Len(tends_src)

\* the number of whole target steps from tstart up to tend
NWindows == (tend - tstart) \div (tdelta * TicksPerSecond)

WindowsChained ==
    /\ Len(ret[1]) = NWindows /\ Len(ret[2]) = NWindows /\ Len(ret[3]) = NWindows
    /\ \A k \in 1 .. NWindows : ret[2][k] - ret[1][k] = tdelta * TicksPerSecond
    /\ \A k \in 1 .. NWindows - 1 : ret[2][k] = ret[1][k + 1]
    /\ NWindows >= 1 => ret[1][1] = tstart

\* C8 as stated: the windows returned for tdelta > 0 and tstart <= tend are
\* ordered, contiguous, tdelta wide, start at tstart, are as many as the
\* values of agg, and cover the range from tstart to tend.
C8_Original ==
    (AeReturned /\ tdelta > 0 /\ tstart <= tend) =>
        /\ WindowsChained
        /\ tstart < tend => (NWindows >= 1 /\ ret[2][NWindows] = tend)

\* C8, amended: they cover the range from tstart to the last grid point
\* tstart + n*tdelta <= tend, which is tend only if tend - tstart is a
\* multiple of tdelta; there is no window if tend - tstart < tdelta.
C8_WindowsContiguous ==
    (AeReturned /\ tdelta > 0 /\ tstart <= tend) =>
        /\ WindowsChained
        /\ NWindows >= 1 =>
              /\ ret[2][NWindows] = tstart + NWindows * tdelta * TicksPerSecond
              /\ ret[2][NWindows] <= tend
              /\ ret[2][NWindows] + tdelta * TicksPerSecond > tend
              /\ (ret[2][NWindows] = tend)
                    <=> ((tend - tstart) % (tdelta * TicksPerSecond) = 0)

\* a window that starts at tstart and stops short of tend
C8_Witness ==
    /\ AeReturned /\ tstart <= tend
    /\ Len(ret[1]) >= 1 /\ ret[1][1] = tstart /\ ret[2][Len(ret[2])] < tend

(* ------------------- claims: the named reductions --------------------- *)

AitRunning == fn = "aggregate_in_time"

\* C7: an unknown reduction name is fatal for every input:
\* aggregate_equidistant_tseries with a method other than 'sum' and 'mean' and
\* aggregate_in_time with a func numpy does not have never return a result
\* (stated here of the calls that have a target window to fill).
C7_UnknownReductionFatal ==
    (\/ AeRunning /\ method \notin {"sum", "mean"} /\ Len(tstarts) >= 1
     \/ AitRunning /\ func \notin NumpyFuncs /\ Len(dt_trg) >= 2)
    => pc # "returned"

(* ---------------------- claims: aggregate_in_time ---------------------- *)

\* the source edges in the closed target window k
EdgesIn(k) ==
    {j \in 1 .. Len(dt_src) :
        dt_src[j] >= dt_trg[k] /\ dt_src[j] <= dt_trg[k + 1]}

\* C9: a target window with no source edge or a single source edge in it has
\* no source step selected: its slot is NaN and the call does not raise on
\* it; the output has len(dt_trg) - 1 slots.
C9_EmptySelectionIsNaN ==
    (AitRunning /\ i >= 1) =>
        /\ Len(trg) = Len(dt_trg) - 1
        /\ \A k \in 1 .. i - 1 :
              Cardinality(EdgesIn(k)) <= 1 => isnan(trg[k])
        /\ (pc = "raised") => Cardinality(EdgesIn(i)) >= 2
        /\ (pc = "returned") => (ret = trg /\ i = Len(dt_trg))

\* a window with a single edge beside a window with a result
C9_Witness ==
    /\ AitRunning /\ pc = "returned" /\ Len(ret) = 2
    /\ Cardinality(EdgesIn(1)) = 1 /\ isnan(ret[1])
    /\ ~isnan(ret[2])

(* -------------------- claims: mean_over_time_windows ------------------- *)

MotwRunning == fn = "mean_over_time_windows"

Ascending(s) == \A k \in 1 .. Len(s) - 1 : s[k] <= s[k + 1]

WholeSeconds(s) == \A k \in 1 .. Len(s) : s[k] % TicksPerSecond = 0

\* C10: for ascending source edges, the weights of a window with a source
\* edge strictly inside it are non-negative and sum to exactly 1 (stated here
\* of the windows the loop has filled).
C10_WeightsSumToOne ==
    (MotwRunning /\ pc # "raised" /\ weights # <<>> /\ Ascending(dt_src)) =>
        /\ \A k \in 1 .. Len(weights) : weights[k][1] >= 0 /\ weights[k][2] > 0
        /\ FSum(weights) = Float(1, 1)

\* what holds of the code: the same for time stamps on whole seconds
C10_WholeSecondStamps ==
    (/\ MotwRunning /\ pc # "raised" /\ weights # <<>> /\ Ascending(dt_src)
     /\ WholeSeconds(dt_src) /\ WholeSeconds(dt_trg)) =>
        /\ \A k \in 1 .. Len(weights) : weights[k][1] >= 0 /\ weights[k][2] > 0
        /\ FSum(weights) = Float(1, 1)

Min(x, y) == IF x < y THEN x ELSE y

Max(x, y) == IF x > y THEN x ELSE y

\* the ticks source step j, [dt_src[j], dt_src[j+1]], shares with window k
Overlap(j, k) ==
    Max(0, Min(dt_src[j + 1], dt_trg[k + 1]) - Max(dt_src[j], dt_trg[k]))

\* the sum over the source steps from j on of value * overlap / (b - a)
RECURSIVE WeightedFrom(_, _)
WeightedFrom(j, k) ==
    IF j > Len(src) THEN Float(0, 1)
    ELSE FAdd(FMul(src[j], Float(Overlap(j, k), dt_trg[k + 1] - dt_trg[k])),
              WeightedFrom(j + 1, k))

\* window k has a width and lies within the range of the source edges
WithinRange(k) ==
    /\ dt_trg[k] < dt_trg[k + 1]
    /\ dt_src[1] <= dt_trg[k] /\ dt_trg[k + 1] <= dt_src[Len(dt_src)]

\* window k has a source edge strictly inside it
HasInsideEdge(k) ==
    \E j \in 1 .. Len(dt_src) : dt_src[j] > dt_trg[k] /\ dt_src[j] < dt_trg[k + 1]

\* C11: for ascending source edges, every target window [a, b] within the
\* range of the source edges gets the duration-weighted mean, the sum over the
\* source steps j of value[j] * overlap(step j, [a, b]) / (b - a), and the call
\* does not fail on such a window; a window that is exactly one source step
\* gets that step's value.
C11_DurationWeightedMean ==
    (MotwRunning /\ i >= 1 /\ Ascending(dt_src)) =>
        /\ \A k \in 1 .. i - 1 : WithinRange(k) => trg[k] = WeightedFrom(1, k)
        /\ (pc = "raised") => ~WithinRange(i)
        /\ \A k \in 1 .. i - 1 :
              (\E j \in 1 .. Len(src) :
                  dt_src[j] = dt_trg[k] /\ dt_src[j + 1] = dt_trg[k + 1]
                  /\ dt_trg[k] < dt_trg[k + 1])
              => \E j \in 1 .. Len(src) : trg[k] = src[j]

\* what holds of the code: the same for time stamps on whole seconds and the
\* windows with a source edge strictly inside them
C11_InsideEdgeWholeSeconds ==
    (/\ MotwRunning /\ i >= 1 /\ Ascending(dt_src)
     /\ WholeSeconds(dt_src) /\ WholeSeconds(dt_trg)) =>
        /\ \A k \in 1 .. i - 1 : WithinRange(k) => trg[k] = WeightedFrom(1, k)
        /\ (pc = "raised") => (~WithinRange(i) \/ ~HasInsideEdge(i))

\* the state the code ends in for a window on whole seconds that is exactly
\* one source step
C11_OneStepWindowRaised ==
    /\ MotwRunning /\ pc = "raised" /\ err = "IndexError"
    /\ WholeSeconds(dt_src) /\ WholeSeconds(dt_trg) /\ Ascending(dt_src)
    /\ i = 1 /\ WithinRange(1)
    /\ \E j \in 1 .. Len(src) :
          dt_src[j] = dt_trg[1] /\ dt_src[j + 1] = dt_trg[2]

(* ------------------ claims: average_over_time_windows ------------------ *)

AotwRunning == fn = "average_over_time_windows"

\* the helper points whose stamp lies in the closed target window k
HelpersIn(k) ==
    {n \in 1 .. Len(helper_secs) :
        /\ helper_secs[n] * TicksPerSecond >= dt_trg[k]
        /\ helper_secs[n] * TicksPerSecond <= dt_trg[k + 1]}

\* helper point n is farther than maxdist seconds from every source stamp
Masked(n) ==
    \A j \in 1 .. Len(dt_src) :
        Abs(helper_secs[n] * TicksPerSecond - dt_src[j]) > maxdist * TicksPerSecond

RECURSIVE HelperSum(_)
HelperSum(S) ==
    IF S = {} THEN Float(0, 1)
    ELSE LET n == CHOOSE x \in S : TRUE
         IN  FAdd(helpers[n], HelperSum(S \ {n}))

HelperMean(S) == FMul(HelperSum(S), Float(1, Cardinality(S)))

\* C12: a masked helper point is left out of every window average: a window
\* that holds masked and unmasked helper points gets the mean of the unmasked
\* ones, and a window is NaN only if all its helper points are masked (stated
\* here of the windows, source stamps within the helper grid's range, for
\* which the points the code averages are the helper points in the window).
C12_MaskedPointsExcluded ==
    (/\ AotwRunning /\ pc # "raised" /\ i >= 2
     /\ Range(helper_ix) = HelpersIn(i - 1)) =>
        LET unmasked == {n \in HelpersIn(i - 1) : ~Masked(n)}
        IN  /\ unmasked # {} => trg[i - 1] = HelperMean(unmasked)
            /\ (isnan(trg[i - 1]) /\ ~isnan(HelperMean(unmasked)))
                  => unmasked = {}

\* what holds of the code: a window with a masked point among the points
\* averaged is NaN
C12_MaskedPointIsNaN ==
    (/\ AotwRunning /\ pc # "raised" /\ i >= 2
     /\ \E n \in Range(helper_ix) : Masked(n)) => isnan(trg[i - 1])

\* C15: the helper points averaged for a target window are the helper points
\* whose stamps lie within [dt_trg[i], dt_trg[i+1]], whatever the positions
\* of the source stamps in dt_src, and the window's value is their average
\* (stated here of the windows the loop has filled).
C15_HelperStampsSelect ==
    (AotwRunning /\ pc # "raised" /\ i >= 2) =>
        /\ Range(helper_ix) = HelpersIn(i - 1)
        /\ trg[i - 1] = HelperMean(HelpersIn(i - 1))

\* what holds of the code: the points averaged are the helper points at the
\* positions, in dt_src, of the source stamps within the window
C15_SourcePositionsSelect ==
    (AotwRunning /\ pc # "raised" /\ i >= 2) =>
        /\ Range(helper_ix) =
              {j \in 1 .. Len(dt_src) :
                  dt_src[j] >= dt_trg[i - 1] /\ dt_src[j] <= dt_trg[i]}
        /\ trg[i - 1] = HelperMean(Range(helper_ix))

(* ---------------- claims: the order of the boundary stamps ------------- *)

\* C13: every aggregator rejects boundary stamps that are not ascending
\* before it produces any result: aggregate_equidistant_tseries for source
\* end stamps out of order, aggregate_in_time and mean_over_time_windows for
\* source or target edges out of order; such a call fills no window and
\* returns nothing (stated here, for the last two, of the calls that have a
\* target window to fill).
C13_NonAscendingRejected ==
    /\ (AeRunning /\ ~Ascending(tends_src)) =>
          (pc = "raised" /\ i = 0 /\ ret = <<>>)
    /\ ((AitRunning \/ MotwRunning) /\ Len(dt_trg) >= 2
        /\ (~Ascending(dt_src) \/ ~Ascending(dt_trg))) =>
          (pc # "returned" /\ i <= 1 /\ ret = <<>>)

\* what holds of the code: aggregate_equidistant_tseries rejects them
C13_EquidistantOrderRejected ==
    (AeRunning /\ ~Ascending(tends_src)) =>
        (pc = "raised" /\ i = 0 /\ ret = <<>>
         /\ err \in {"AssertionError: length", "AssertionError: order"})

\* aggregate_in_time returns a sum for source edges in descending order
C13_DescendingEdgesSummed ==
    /\ AitRunning /\ pc = "returned" /\ func = "sum"
    /\ dt_src = <<Seconds(2), Seconds(1), Seconds(0)>>
    /\ dt_trg = <<Seconds(0), Seconds(2)>>
    /\ src = <<Float(1, 1), Float(2, 1)>>
    /\ ret = <<Float(3, 1)>>

(* ----------------- claims: aggregate_in_time's selection --------------- *)

\* the source steps with both edges in the closed target window k
StepsIn(k) ==
    {j \in 1 .. Len(dt_src) - 1 : j \in EdgesIn(k) /\ (j + 1) \in EdgesIn(k)}

\* the named reduction of the source steps S
ReducedSteps(S) ==
    IF func = "sum" THEN SumOver(S)
    ELSE FMul(SumOver(S), Float(1, Cardinality(S)))

\* C14: with strictly ascending source edges, a target window with k >= 1
\* source edges in it has exactly k - 1 source steps selected, the steps
\* whose both edges lie in the closed window, each once; its slot is the named
\* reduction of exactly those steps, and the call does not fail on it.
C14_StepsFullyInside ==
    (/\ AitRunning /\ i >= 1 /\ StrictlyAscending(dt_src)
     /\ func \in NumpyFuncs) =>
        /\ pc # "raised"
        /\ Len(src_slice) = i - 1
        /\ \A k \in 1 .. i - 1 :
              Cardinality(EdgesIn(k)) >= 1 =>
                 /\ Len(src_slice[k]) = Cardinality(EdgesIn(k)) - 1
                 /\ Range(src_slice[k]) = StepsIn(k)
                 /\ trg[k] = IF StepsIn(k) = {} THEN NaN
                             ELSE ReducedSteps(StepsIn(k))

\* three edges in the window, two steps summed, beside a step left out
C14_Witness ==
    /\ AitRunning /\ pc = "returned" /\ func = "sum"
    /\ StrictlyAscending(dt_src) /\ Len(dt_src) = 3 /\ Len(dt_trg) = 3
    /\ Cardinality(EdgesIn(1)) = 3 /\ Len(src_slice[1]) = 2
    /\ ret[1] = Float(3, 1)
    /\ Cardinality(EdgesIn(2)) = 1

\* every target edge is a source edge
TargetOnSource ==
    \A k \in 1 .. Len(dt_trg) : \E j \in 1 .. Len(dt_src) : dt_trg[k] = dt_src[j]

\* the source steps between the first and the last target edge
StepsInRange ==
    {j \in 1 .. Len(dt_src) - 1 :
        dt_src[j] >= dt_trg[1] /\ dt_src[j + 1] <= dt_trg[Len(dt_trg)]}

\* no source step is selected for two of the windows done so far
NoStepTwice ==
    \A k1 \in 1 .. Len(src_slice), k2 \in 1 .. Len(src_slice) :
        k1 # k2 => Range(src_slice[k1]) \cap Range(src_slice[k2]) = {}

\* every source step of the range is selected for exactly one window
EachStepOnce ==
    \A j \in StepsInRange :
        Cardinality({k \in 1 .. Len(src_slice) : j \in Range(src_slice[k])}) = 1

\* the windows that have a source step selected
Filled == np_where([k \in 1 .. Len(src_slice) |-> src_slice[k] # <<>>])

\* C16 as stated: with strictly ascending source edges and ascending target
\* edges no source step is selected for two windows; when every target edge
\* is a source edge, each source step between the first and the last target
\* edge is selected for exactly one window, and with func 'sum' the window
\* sums add up to the sum of those source steps.
C16_Original ==
    (/\ AitRunning /\ i >= 1 /\ StrictlyAscending(dt_src) /\ Ascending(dt_trg)
     /\ func \in NumpyFuncs) =>
        /\ NoStepTwice
        /\ (pc = "returned" /\ TargetOnSource) =>
              /\ EachStepOnce
              /\ func = "sum" => FSum(ret) = SumOver(StepsInRange)

\* C16, amended: the sums of the windows that have a step selected add up to
\* the sum of those source steps; a window between two equal target edges has
\* none and is NaN.
C16_StepsPartitioned ==
    (/\ AitRunning /\ i >= 1 /\ StrictlyAscending(dt_src) /\ Ascending(dt_trg)
     /\ func \in NumpyFuncs) =>
        /\ NoStepTwice
        /\ (pc = "returned" /\ TargetOnSource) =>
              /\ EachStepOnce
              /\ func = "sum" => FSum(Take(ret, Filled)) = SumOver(StepsInRange)
              /\ \A k \in 1 .. Len(ret) :
                    dt_trg[k] = dt_trg[k + 1] => (src_slice[k] = <<>> /\ isnan(ret[k]))
              /\ StrictlyAscending(dt_trg) => Len(Filled) = Len(ret)

\* two windows that share the edge between two steps, one step each
C16_Witness ==
    /\ AitRunning /\ pc = "returned" /\ func = "sum"
    /\ dt_src = <<Seconds(0), Seconds(1), Seconds(2)>>
    /\ dt_trg = dt_src
    /\ src = <<Float(1, 1), Float(2, 1)>>
    /\ src_slice = << <<1>>, <<2>> >>
    /\ ret = src

====
